---- MODULE Spec2Model ----
(***************************************************************************)
(* Model of the two utilities of the repository:                           *)
(*   - aig/patches/llm.py: LLM.chat / LLM.chat_stream (ChatClient)         *)
(*   - scripts/convert_guides_to_docx.py: convert_markdown_to_docx         *)
(* Text is modelled as a sequence of one-character strings, so that the    *)
(* empty string is <<>> and concatenation is \o.                           *)
(***************************************************************************)
EXTENDS Integers, Sequences, FiniteSets, TLC

(***************************************************************************)
(* Bounds of the model.                                                    *)
(***************************************************************************)
\* transport events delivered over one call of chat, all attempts together
MaxChunks == 3
\* lines read from the source files over one run of the converter
MaxLines == 3
\* the same, when the converter is run twice on the directory
MaxRunLines == 2

(***************************************************************************)
(* ChatClient: aig/patches/llm.py                                          *)
(***************************************************************************)
VARIABLES
    pc,        \* position of the call of chat
    p,         \* chat's parameter p
    ret,       \* chat's local ret
    retry,     \* chat's local retry
    result,    \* the value chat returned (<<>> before it returns)
    attempts,  \* per streaming request, the transport events it delivered
    sleeps,    \* the time.sleep calls made, in tenths of a second
    log,       \* the logger.error entries
    stdout,    \* what print wrote
    yielded,   \* the fragments chat_stream has yielded in the current attempt
    calls      \* the locals of the calls of chat that run concurrently

chatVars == <<pc, p, ret, retry, result, attempts, sleeps, log, stdout,
              yielded, calls>>

(***************************************************************************)
(* MarkdownToDocConverter: scripts/convert_guides_to_docx.py               *)
(***************************************************************************)
VARIABLES
    cpc,            \* position of convert_markdown_to_docx
    listing,        \* what os.listdir(source_dir) returned
    pending,        \* the entries of the listing the loop has not visited yet
    filename,       \* the loop variable filename
    docx_path,      \* the local docx_path (name within source_dir)
    lines,          \* the local lines, as f.readlines() returned them
    idx,            \* index in lines of the line the inner loop is at
    in_code_block,  \* the local in_code_block
    doc,            \* the elements added to the Document so far
    saves,          \* the doc.save calls made, in order
    run,            \* which run of the converter on the directory this is
    src,            \* the source files read so far, with their contents
    lineBudget      \* the number of lines the source files hold at most

convVars == <<cpc, listing, pending, filename, docx_path, lines, idx,
              in_code_block, doc, saves, run, src, lineBudget>>

vars == <<chatVars, convVars>>

\* retry > 5 (llm.py line 35)
MaxRetry == 5
\* time.sleep(1.3), in tenths (llm.py line 34)
SleepTenths == 13

FailureMessage ==
    <<"LLM connection failed after 5 retries. Model output is empty. Please wait 1 minute and try again.">>

ExhaustedLog == <<"LLM chat error, retry 5 times, exit">>

RetryLog(n) == <<"LLM chat error, retry", n>>

\* A transport event (chunk) as chat_stream inspects it.
Chunk(choices, delta, content, text) ==
    [choices |-> choices, delta |-> delta, content |-> content, text |-> text]

Chunks ==
    { Chunk("notlist", "none", "none", <<>>),     \* no choices attribute / not a list
      Chunk("empty",   "none", "none", <<>>),     \* choices == []
      Chunk("list",    "none", "none", <<>>),     \* first choice has no delta
      Chunk("list",    "present", "none", <<>>),  \* delta.content is None
      Chunk("list",    "present", "str", <<>>),   \* delta.content == ''
      Chunk("list",    "present", "str", <<"a">>),
      Chunk("list",    "present", "str", <<"b", "c">>) }

\* chat_stream's test of one chunk: TRUE when the chunk is yielded.
Yields(chunk) ==
    /\ chunk.choices = "list"
    /\ chunk.delta = "present"
    /\ chunk.content = "str"
    /\ chunk.text # <<>>

RECURSIVE Fragments(_)
\* The fragments chat_stream yields for a sequence of transport events.
Fragments(events) ==
    IF events = <<>> THEN <<>>
    ELSE LET rest == Fragments(Tail(events))
         IN IF Yields(Head(events)) THEN <<Head(events).text>> \o rest ELSE rest

RECURSIVE Concat(_)
Concat(frags) ==
    IF frags = <<>> THEN <<>> ELSE Head(frags) \o Concat(Tail(frags))

RECURSIVE TotalLen(_)
TotalLen(ss) ==
    IF ss = <<>> THEN 0 ELSE Len(Head(ss)) + TotalLen(Tail(ss))

ChatInit ==
    /\ cpc = "idle"
    /\ listing = {}
    /\ pending = {}
    /\ filename = <<>>
    /\ docx_path = <<>>
    /\ lines = <<>>
    /\ idx = 1
    /\ in_code_block = FALSE
    /\ doc = <<>>
    /\ saves = <<>>
    /\ run = 1
    /\ src = <<>>
    /\ lineBudget = 0
    /\ calls = <<>>
    /\ yielded = <<>>
    /\ pc = "request"
    /\ p \in BOOLEAN
    /\ ret = <<>>
    /\ retry = 0
    /\ result = <<>>
    /\ attempts = <<>>
    /\ sleeps = <<>>
    /\ log = <<>>
    /\ stdout = <<>>

\* chat_stream line 43: the streaming request is issued and the stream opens.
IssueRequest ==
    /\ pc = "request"
    /\ UNCHANGED convVars
    /\ pc' = "stream"
    /\ attempts' = Append(attempts, <<>>)
    /\ yielded' = <<>>
    /\ UNCHANGED <<p, ret, retry, result, sleeps, log, stdout, calls>>

\* chat_stream line 43: create() raises; nothing in chat_stream or chat catches it.
RequestError ==
    /\ pc = "request"
    /\ UNCHANGED convVars
    /\ pc' = "raised"
    /\ attempts' = Append(attempts, <<>>)
    /\ yielded' = <<>>
    /\ UNCHANGED <<p, ret, retry, result, sleeps, log, stdout, calls>>

\* Mutant of Yield: every chunk that has a content string is yielded, the
\* empty string included.
YieldAnyString(ys, chunk) ==
    IF chunk.choices = "list" /\ chunk.delta = "present" /\ chunk.content = "str"
    THEN Append(ys, chunk.text) ELSE ys

\* chat_stream lines 50-59 for one chunk: the fragments yielded so far, ys,
\* get the chunk's content when the chunk passes the tests.
Yield(ys, chunk) == IF Yields(chunk) THEN Append(ys, chunk.text) ELSE ys

\* Mutant of Accumulate: the fragment is put in front of the text so far.
AccumulateFront(r, chunk) == IF Yields(chunk) THEN chunk.text \o r ELSE r

\* chat line 28 applied to what chat_stream does with one chunk (lines 49-59).
Accumulate(r, chunk) == IF Yields(chunk) THEN r \o chunk.text ELSE r

\* One iteration of chat_stream's loop over the response, and of chat's loop
\* over the fragments.
RecvChunk ==
    /\ pc = "stream"
    /\ UNCHANGED convVars
    /\ TotalLen(attempts) < MaxChunks
    /\ \E chunk \in Chunks :
          /\ attempts' = [attempts EXCEPT ![Len(attempts)] = Append(@, chunk)]
          /\ yielded' = Yield(yielded, chunk)
          /\ ret' = Accumulate(ret, chunk)
    /\ UNCHANGED <<pc, p, retry, result, sleeps, log, stdout, calls>>

\* chat_stream line 49: reading the stream raises; the exception leaves chat.
StreamError ==
    /\ pc = "stream"
    /\ UNCHANGED convVars
    /\ pc' = "raised"
    /\ UNCHANGED <<p, ret, retry, result, attempts, sleeps, log, stdout,
                   yielded, calls>>

\* Mutant of GotContent: leaves the loop after any attempt, empty or not.
GotAnything(r) == r = r

\* chat line 29
GotContent(r) == r # <<>>

\* Mutant of Exhausted: gives up one retry early.
ExhaustedEarly(n) == n >= MaxRetry

\* chat line 35
Exhausted(n) == n > MaxRetry

\* The transport closes the stream: chat lines 29-40.
StreamEnd ==
    /\ pc = "stream"
    /\ UNCHANGED convVars
    /\ IF GotContent(ret)
       THEN /\ pc' = "returned"
            /\ result' = ret
            /\ stdout' = IF p THEN Append(stdout, ret) ELSE stdout
            /\ UNCHANGED <<retry, sleeps, log>>
       ELSE /\ retry' = retry + 1
            /\ sleeps' = Append(sleeps, SleepTenths)
            /\ IF Exhausted(retry + 1)
               THEN /\ log' = log \o <<RetryLog(retry + 1), ExhaustedLog>>
                    /\ result' = FailureMessage
                    /\ pc' = "returned"
               ELSE /\ log' = Append(log, RetryLog(retry + 1))
                    /\ pc' = "request"
                    /\ UNCHANGED result
            /\ UNCHANGED stdout
    /\ UNCHANGED <<p, ret, attempts, yielded, calls>>

ChatNext ==
    \/ IssueRequest
    \/ RequestError
    \/ RecvChunk
    \/ StreamError
    \/ StreamEnd

\* One call of LLM.chat.
Spec == ChatInit /\ [][ChatNext]_vars

(***************************************************************************)
(* Several calls of LLM.chat running concurrently on one LLM object.  chat *)
(* keeps ret and retry in locals (lines 24-25) and only reads self.client  *)
(* and self.model, so each call has its own record of locals in calls.     *)
(***************************************************************************)
\* transport events delivered to the concurrent calls, all calls together
MaxConcChunks == 2

\* the calls of chat in flight at once
CallIds == {1, 2}

\* the transport events the concurrent calls receive
ConcChunks == {c \in Chunks : c.content = "str" /\ Len(c.text) <= 1}

\* the locals of a call that has just entered chat (lines 23-25)
NewCall(q) ==
    [pc |-> "request", p |-> q, ret |-> <<>>, retry |-> 0, result |-> <<>>,
     attempts |-> <<>>, sleeps |-> <<>>, log |-> <<>>, printed |-> <<>>]

RECURSIVE Delivered(_)
\* the number of transport events delivered so far to the calls in ids
Delivered(ids) ==
    IF ids = {} THEN 0
    ELSE LET i == CHOOSE j \in ids : TRUE
         IN TotalLen(calls[i].attempts) + Delivered(ids \ {i})

\* the variables of the single-call model, which the concurrent calls leave alone
chatLocals == <<pc, p, ret, retry, result, attempts, sleeps, log, stdout, yielded>>

ConcInit ==
    /\ cpc = "idle"
    /\ listing = {}
    /\ pending = {}
    /\ filename = <<>>
    /\ docx_path = <<>>
    /\ lines = <<>>
    /\ idx = 1
    /\ in_code_block = FALSE
    /\ doc = <<>>
    /\ saves = <<>>
    /\ run = 1
    /\ src = <<>>
    /\ lineBudget = 0
    /\ yielded = <<>>
    /\ pc = "idle"
    /\ p = FALSE
    /\ ret = <<>>
    /\ retry = 0
    /\ result = <<>>
    /\ attempts = <<>>
    /\ sleeps = <<>>
    /\ log = <<>>
    /\ stdout = <<>>
    /\ calls \in [CallIds -> {NewCall(q) : q \in BOOLEAN}]

\* Mutant of OwnRetry: retry kept on the LLM object, shared by all its calls.
SharedRetry(i) ==
    CHOOSE n \in {calls[j].retry : j \in CallIds} :
        \A j \in CallIds : calls[j].retry <= n

\* chat lines 25, 32: the retry counter call i reads is its own local
OwnRetry(i) == calls[i].retry

\* chat_stream line 43, in call i
CallRequest(i) ==
    /\ calls[i].pc = "request"
    /\ calls' = [calls EXCEPT ![i].pc = "stream",
                              ![i].attempts = Append(@, <<>>)]
    /\ UNCHANGED <<chatLocals, convVars>>

\* chat_stream line 43 raises, in call i
CallRequestError(i) ==
    /\ calls[i].pc = "request"
    /\ calls' = [calls EXCEPT ![i].pc = "raised",
                              ![i].attempts = Append(@, <<>>)]
    /\ UNCHANGED <<chatLocals, convVars>>

\* one iteration of the loops of chat_stream and chat, in call i
CallRecv(i) ==
    /\ calls[i].pc = "stream"
    /\ Delivered(CallIds) < MaxConcChunks
    /\ \E chunk \in ConcChunks :
          calls' = [calls EXCEPT
                      ![i].attempts = [@ EXCEPT ![Len(@)] = Append(@, chunk)],
                      ![i].ret = Accumulate(@, chunk)]
    /\ UNCHANGED <<chatLocals, convVars>>

\* chat_stream line 49 raises, in call i
CallStreamError(i) ==
    /\ calls[i].pc = "stream"
    /\ calls' = [calls EXCEPT ![i].pc = "raised"]
    /\ UNCHANGED <<chatLocals, convVars>>

\* the transport closes the stream of call i: chat lines 29-40
CallStreamEnd(i) ==
    /\ calls[i].pc = "stream"
    /\ UNCHANGED <<chatLocals, convVars>>
    /\ LET c == calls[i]
           n == OwnRetry(i) + 1
       IN IF GotContent(c.ret)
          THEN calls' = [calls EXCEPT
                           ![i].pc = "returned",
                           ![i].result = c.ret,
                           ![i].printed = IF c.p THEN Append(@, c.ret) ELSE @]
          ELSE IF Exhausted(n)
          THEN calls' = [calls EXCEPT
                           ![i].retry = n,
                           ![i].sleeps = Append(@, SleepTenths),
                           ![i].log = @ \o <<RetryLog(n), ExhaustedLog>>,
                           ![i].result = FailureMessage,
                           ![i].pc = "returned"]
          ELSE calls' = [calls EXCEPT
                           ![i].retry = n,
                           ![i].sleeps = Append(@, SleepTenths),
                           ![i].log = Append(@, RetryLog(n)),
                           ![i].pc = "request"]

ConcNext ==
    \/ \E i \in CallIds : CallRequest(i)
    \/ \E i \in CallIds : CallRequestError(i)
    \/ \E i \in CallIds : CallRecv(i)
    \/ \E i \in CallIds : CallStreamError(i)
    \/ \E i \in CallIds : CallStreamEnd(i)

\* The calls of LLM.chat in CallIds, interleaved in every way.
ConcSpec == ConcInit /\ [][ConcNext]_vars

(***************************************************************************)
(* Text operations of Python used by the converter.                        *)
(***************************************************************************)
\* the characters str.strip / str.rstrip remove
IsSpace(c) == c \in {" ", "\t", "\n"}

\* the characters \d matches
IsDigit(c) == c \in {"0", "1", "2", "3", "4", "5", "6", "7", "8", "9"}

\* s[n:]
Drop(s, n) == SubSeq(s, n + 1, Len(s))

\* s.startswith(prefix)
StartsWith(s, prefix) ==
    /\ Len(s) >= Len(prefix)
    /\ SubSeq(s, 1, Len(prefix)) = prefix

\* s.endswith(suffix)
EndsWith(s, suffix) ==
    /\ Len(s) >= Len(suffix)
    /\ SubSeq(s, Len(s) - Len(suffix) + 1, Len(s)) = suffix

RECURSIVE RStrip(_)
\* s.rstrip()
RStrip(s) ==
    IF s # <<>> /\ IsSpace(s[Len(s)]) THEN RStrip(SubSeq(s, 1, Len(s) - 1)) ELSE s

RECURSIVE LStrip(_)
LStrip(s) ==
    IF s # <<>> /\ IsSpace(Head(s)) THEN LStrip(Tail(s)) ELSE s

\* s.strip()
Strip(s) == LStrip(RStrip(s))

RECURSIVE Replace(_, _, _)
\* s.replace(old, new): every occurrence of old, left to right
Replace(s, old, new) ==
    IF Len(s) < Len(old) THEN s
    ELSE IF StartsWith(s, old) THEN new \o Replace(Drop(s, Len(old)), old, new)
    ELSE <<Head(s)>> \o Replace(Tail(s), old, new)

\* re.match(r"^\d+\. ", s)
MatchNumbered(s) ==
    \E k \in 1..Len(s) :
        /\ \A i \in 1..k : IsDigit(s[i])
        /\ Len(s) >= k + 2
        /\ s[k + 1] = "."
        /\ s[k + 2] = " "

\* s.split(sep, 1)[1], for s that contains sep
AfterFirst(s, sep) ==
    LET at == CHOOSE i \in 1..Len(s) :
                  /\ StartsWith(Drop(s, i - 1), sep)
                  /\ \A j \in 1..(i - 1) : ~StartsWith(Drop(s, j - 1), sep)
    IN Drop(s, at - 1 + Len(sep))

(***************************************************************************)
(* The Document, as far as the converter drives it.                        *)
(***************************************************************************)
Run(text) == [text |-> text, font |-> "", size |-> 0]

\* a paragraph gets one run holding its text, and no run for an empty text
Runs(text) == IF text = <<>> THEN <<>> ELSE <<Run(text)>>

HeadingStyle == <<"Heading 1", "Heading 2", "Heading 3", "Heading 4">>

\* doc.add_paragraph(text, style)
AddParagraph(text, style) ==
    [kind |-> "paragraph", level |-> 0, style |-> style, runs |-> Runs(text)]

\* doc.add_heading(text, level)
AddHeading(text, level) ==
    [kind |-> "heading", level |-> level, style |-> HeadingStyle[level],
     runs |-> Runs(text)]

\* Pt(10), line 34
CodeFontSize == 10

(***************************************************************************)
(* Inputs: the lines a source file may hold and the directories.           *)
(***************************************************************************)
\* the backtick character (the string syntax of TLA+ has no backtick)
Tick == "tick"

SourceLines ==
    { <<"#", " ", "T">>,
      <<"#", "#", " ", "T">>,
      <<"#", "#", "#", " ", "T">>,
      <<"#", "#", "#", "#", " ", "T">>,
      <<"#", "#", "#", "#", "#", " ", "T">>,
      <<"-", " ", "i">>,
      <<" ", "*", " ", "i", " ">>,
      <<"1", "2", ".", " ", "a", ".", " ", "b">>,
      <<"1", ".", " ">>,
      <<Tick, Tick, Tick>>,
      <<Tick, Tick, Tick, "p", "y">>,
      <<" ", Tick, Tick, Tick>>,
      <<>>,
      <<" ">>,
      <<"x">> }

\* the file contents of at most n lines
Contents(n) == UNION { [1..k -> SourceLines] : k \in 0..n }

aMd     == <<"a", ".", "m", "d">>
aMdMd   == <<"a", ".", "m", "d", ".", "m", "d">>
aDocxMd == <<"a", ".", "d", "o", "c", "x", ".", "m", "d">>
aMdx    == <<"a", ".", "m", "d", "x">>
aDocx   == <<"a", ".", "d", "o", "c", "x">>
aTxt    == <<"a", ".", "t", "x", "t">>

\* the directories the converter is run on
Listings ==
    { {aMd}, {aMdMd, aTxt}, {aMdMd, aDocxMd}, {aMdx, aDocx} }

MdExt   == <<".", "m", "d">>
DocxExt == <<".", "d", "o", "c", "x">>

(***************************************************************************)
(* convert_markdown_to_docx                                                *)
(***************************************************************************)
\* f.readlines(): every line with its line end
ReadLines(content) == [i \in 1..Len(content) |-> content[i] \o <<"\n">>]

\* line 8
IsMarkdown(name) == EndsWith(name, MdExt)

\* line 10: filename.replace(".md", ".docx")
OutputName(name) == Replace(name, MdExt, DocxExt)

\* Mutant of IsFence: leading whitespace is ignored too.
IsFenceStripped(line) == StartsWith(Strip(line), <<Tick, Tick, Tick>>)

\* line 25
IsFence(line) == StartsWith(line, <<Tick, Tick, Tick>>)

\* Mutant of InitialCodeBlock: the state of the previous file carries over.
CarriedCodeBlock == in_code_block

\* line 19
InitialCodeBlock == FALSE

\* lines 30-34; for a paragraph without a run, p.runs[0] raises IndexError
\* after the paragraph was added and its style set
CodeLineRaises(line) == AddParagraph(line, "Normal").runs = <<>>

CodeElement(line) ==
    LET para == [AddParagraph(line, "Normal") EXCEPT !.style = "No Spacing"]
    IN IF para.runs = <<>> THEN para
       ELSE [para EXCEPT !.runs[1].font = "Courier New",
                         !.runs[1].size = CodeFontSize]

\* Mutant of PlainText: an empty line gets a paragraph of its own.
PlainTextKeepEmpty(line) == <<AddParagraph(line, "Normal")>>

\* lines 54-58
PlainText(line) ==
    IF Strip(line) = <<>> THEN <<>> ELSE <<AddParagraph(line, "Normal")>>

\* Mutant of NormalElements: five '#' and a space are taken as a heading too,
\* and digits followed by a bare '.' as a numbered item.
NormalElementsLenient(line) ==
    IF StartsWith(line, <<"#", " ">>)
        THEN <<AddHeading(Drop(line, 2), 1)>>
    ELSE IF StartsWith(line, <<"#", "#", " ">>)
        THEN <<AddHeading(Drop(line, 3), 2)>>
    ELSE IF StartsWith(line, <<"#", "#", "#", " ">>)
        THEN <<AddHeading(Drop(line, 4), 3)>>
    ELSE IF StartsWith(line, <<"#", "#", "#", "#", " ">>)
        THEN <<AddHeading(Drop(line, 5), 4)>>
    ELSE IF StartsWith(line, <<"#", "#", "#", "#", "#", " ">>)
        THEN <<AddHeading(Drop(line, 6), 4)>>
    ELSE IF \/ StartsWith(Strip(line), <<"-", " ">>)
            \/ StartsWith(Strip(line), <<"*", " ">>)
        THEN <<AddParagraph(Drop(Strip(line), 2), "List Bullet")>>
    ELSE IF MatchNumbered(Strip(line) \o <<" ">>)
        THEN <<AddParagraph(AfterFirst(Strip(line) \o <<" ">>, <<".", " ">>), "List Number")>>
    ELSE PlainText(line)

\* lines 38-58: the elements a line adds outside a code block
NormalElements(line) ==
    IF StartsWith(line, <<"#", " ">>)
        THEN <<AddHeading(Drop(line, 2), 1)>>
    ELSE IF StartsWith(line, <<"#", "#", " ">>)
        THEN <<AddHeading(Drop(line, 3), 2)>>
    ELSE IF StartsWith(line, <<"#", "#", "#", " ">>)
        THEN <<AddHeading(Drop(line, 4), 3)>>
    ELSE IF StartsWith(line, <<"#", "#", "#", "#", " ">>)
        THEN <<AddHeading(Drop(line, 5), 4)>>
    ELSE IF \/ StartsWith(Strip(line), <<"-", " ">>)
            \/ StartsWith(Strip(line), <<"*", " ">>)
        THEN <<AddParagraph(Drop(Strip(line), 2), "List Bullet")>>
    ELSE IF MatchNumbered(Strip(line))
        THEN <<AddParagraph(AfterFirst(Strip(line), <<".", " ">>), "List Number")>>
    ELSE PlainText(line)

RECURSIVE LinesOf(_)
\* the number of lines of the files in ss
LinesOf(ss) == IF ss = <<>> THEN 0 ELSE Len(Head(ss).lines) + LinesOf(Tail(ss))

\* line 7: os.listdir(source_dir)
ConvInit ==
    /\ pc = "idle"
    /\ p = FALSE
    /\ ret = <<>>
    /\ retry = 0
    /\ result = <<>>
    /\ attempts = <<>>
    /\ sleeps = <<>>
    /\ log = <<>>
    /\ stdout = <<>>
    /\ yielded = <<>>
    /\ calls = <<>>
    /\ run = 1
    /\ src = <<>>
    /\ lineBudget = MaxLines
    /\ cpc = "loop"
    /\ listing \in Listings
    /\ pending = listing
    /\ filename = <<>>
    /\ docx_path = <<>>
    /\ lines = <<>>
    /\ idx = 1
    /\ in_code_block = FALSE
    /\ doc = <<>>
    /\ saves = <<>>

\* lines 7-8: an entry that does not end in ".md" is passed over
SkipEntry ==
    /\ cpc = "loop"
    /\ UNCHANGED chatVars
    /\ \E name \in pending :
          /\ ~IsMarkdown(name)
          /\ pending' = pending \ {name}
          /\ filename' = name
    /\ UNCHANGED <<cpc, listing, docx_path, lines, idx, in_code_block, doc, saves,
                   run, src, lineBudget>>

\* lines 7-19: the next ".md" entry is opened and read
OpenFile ==
    /\ cpc = "loop"
    /\ UNCHANGED chatVars
    /\ \E name \in pending :
          /\ IsMarkdown(name)
          /\ pending' = pending \ {name}
          /\ filename' = name
          /\ docx_path' = OutputName(name)
          /\ IF \E k \in 1..Len(src) : src[k].name = name
             THEN /\ \E k \in 1..Len(src) :
                        src[k].name = name /\ lines' = ReadLines(src[k].lines)
                  /\ UNCHANGED src
             ELSE \E content \in Contents(lineBudget - LinesOf(src)) :
                      /\ lines' = ReadLines(content)
                      /\ src' = Append(src, [name |-> name, lines |-> content])
    /\ doc' = <<>>
    /\ in_code_block' = InitialCodeBlock
    /\ idx' = 1
    /\ cpc' = "lines"
    /\ UNCHANGED <<listing, saves, run, lineBudget>>

\* lines 21-58: one iteration of the loop over the lines
ProcessLine ==
    /\ cpc = "lines"
    /\ UNCHANGED chatVars
    /\ idx <= Len(lines)
    /\ LET line == RStrip(lines[idx])
       IN IF IsFence(line)
          THEN /\ in_code_block' = ~in_code_block
               /\ idx' = idx + 1
               /\ UNCHANGED <<doc, cpc>>
          ELSE IF in_code_block
          THEN /\ doc' = Append(doc, CodeElement(line))
               /\ IF CodeLineRaises(line)
                  THEN cpc' = "failed" /\ UNCHANGED idx
                  ELSE idx' = idx + 1 /\ UNCHANGED cpc
               /\ UNCHANGED in_code_block
          ELSE /\ doc' = doc \o NormalElements(line)
               /\ idx' = idx + 1
               /\ UNCHANGED <<in_code_block, cpc>>
    /\ UNCHANGED <<listing, pending, filename, docx_path, lines, saves,
                   run, src, lineBudget>>

\* line 60: doc.save(docx_path)
SaveDoc ==
    /\ cpc = "lines"
    /\ UNCHANGED chatVars
    /\ idx > Len(lines)
    /\ saves' = Append(saves, [path |-> docx_path, source |-> filename,
                               lines |-> lines, doc |-> doc, run |-> run])
    /\ cpc' = "loop"
    /\ UNCHANGED <<listing, pending, filename, docx_path, lines, idx,
                   in_code_block, doc, run, src, lineBudget>>

\* the loop over the listing ends
Finish ==
    /\ cpc = "loop"
    /\ UNCHANGED chatVars
    /\ pending = {}
    /\ cpc' = "done"
    /\ UNCHANGED <<listing, pending, filename, docx_path, lines, idx,
                   in_code_block, doc, saves, run, src, lineBudget>>

ConvNext ==
    \/ SkipEntry
    \/ OpenFile
    \/ ProcessLine
    \/ SaveDoc
    \/ Finish

\* One run of convert_markdown_to_docx on a directory.
ConvSpec == ConvInit /\ [][ConvNext]_vars

(***************************************************************************)
(* The converter run twice on the same directory.                          *)
(***************************************************************************)
ConvInitTwice ==
    /\ pc = "idle"
    /\ p = FALSE
    /\ ret = <<>>
    /\ retry = 0
    /\ result = <<>>
    /\ attempts = <<>>
    /\ sleeps = <<>>
    /\ log = <<>>
    /\ stdout = <<>>
    /\ yielded = <<>>
    /\ calls = <<>>
    /\ run = 1
    /\ src = <<>>
    /\ lineBudget = MaxRunLines
    /\ cpc = "loop"
    /\ listing \in Listings
    /\ pending = listing
    /\ filename = <<>>
    /\ docx_path = <<>>
    /\ lines = <<>>
    /\ idx = 1
    /\ in_code_block = FALSE
    /\ doc = <<>>
    /\ saves = <<>>

\* the names the doc.save calls of ss wrote to
Written(ss) == {ss[k].path : k \in 1..Len(ss)}

\* lines 63-66 a second time: the script is started again, after the first run
\* ended or raised; the directory now holds the documents the first run wrote,
\* the sources are unchanged, and os.listdir may list in another order.
Rerun ==
    /\ cpc \in {"done", "failed"}
    /\ UNCHANGED chatVars
    /\ run = 1
    /\ run' = 2
    /\ listing' = listing \cup Written(saves)
    /\ pending' = listing'
    /\ cpc' = "loop"
    /\ filename' = <<>>
    /\ docx_path' = <<>>
    /\ lines' = <<>>
    /\ idx' = 1
    /\ in_code_block' = FALSE
    /\ doc' = <<>>
    /\ UNCHANGED <<saves, src, lineBudget>>

ConvNextTwice ==
    \/ SkipEntry
    \/ OpenFile
    \/ ProcessLine
    \/ SaveDoc
    \/ Finish
    \/ Rerun

\* Two runs of convert_markdown_to_docx on a directory.
ConvSpecTwice == ConvInitTwice /\ [][ConvNextTwice]_vars

(***************************************************************************)
(* Properties of the ChatClient.                                           *)
(***************************************************************************)
\* The non-empty texts carried by a sequence of transport events, in order.
NonEmptyTexts(events) ==
    LET kept == SelectSeq(events, LAMBDA e : e.text # <<>>)
    IN [i \in 1..Len(kept) |-> kept[i].text]

LastAttempt == attempts[Len(attempts)]

\* C1: when the first streaming attempt yields at least one non-empty
\* fragment, chat issues exactly one request, performs no retry, no sleep and
\* no error log, and the value it returns is the concatenation of the
\* non-empty fragments of that attempt in arrival order.
C1_FirstAttemptContent ==
    (Len(attempts) >= 1 /\ NonEmptyTexts(attempts[1]) # <<>>) =>
        /\ Len(attempts) = 1
        /\ retry = 0
        /\ sleeps = <<>>
        /\ log = <<>>
        /\ pc \in {"stream", "returned", "raised"}
        /\ (pc = "returned" => result = Concat(NonEmptyTexts(attempts[1])))

C1_Witness ==
    /\ pc = "returned"
    /\ Len(attempts) = 1
    /\ Len(NonEmptyTexts(attempts[1])) = 2
    /\ Len(attempts[1]) = 3
    /\ result = <<"a", "b", "c">>

\* C2: when every attempt's stream yields only empty-string fragments or no
\* fragments, chat issues exactly MaxRetry + 1 = 6 streaming requests and then
\* returns the fixed failure message as an ordinary value; it never issues a
\* seventh request, and what decides is only the absence of non-empty text.
C2_AllEmptySixRequests ==
    (\A i \in 1..Len(attempts) : NonEmptyTexts(attempts[i]) = <<>>) =>
        /\ Len(attempts) <= MaxRetry + 1
        /\ (pc = "returned" =>
                /\ Len(attempts) = MaxRetry + 1
                /\ result = FailureMessage)
        /\ (pc = "request" => Len(attempts) = retry /\ retry <= MaxRetry)

C2_Witness ==
    /\ pc = "returned"
    /\ result = FailureMessage
    /\ Len(attempts) = 6
    /\ \E i \in 1..Len(attempts) : attempts[i] = <<>>
    /\ \E i \in 1..Len(attempts) :
          attempts[i] # <<>> /\ \A k \in 1..Len(attempts[i]) : attempts[i][k].content = "str"

\* C3 (as claimed): a transport failure before any non-empty fragment has
\* arrived is counted as an empty result and retried; no transport error ever
\* leaves chat.
C3_TransportErrorRetried ==
    ~(pc = "raised" /\ ret = <<>>)

\* C4 (as claimed): once an attempt has delivered a non-empty fragment and its
\* stream has failed or ended, chat has returned the concatenation of the
\* fragments received, without a further request.
C4_FragmentThenFailureReturns ==
    (attempts # <<>> /\ NonEmptyTexts(LastAttempt) # <<>> /\ pc # "stream") =>
        /\ pc = "returned"
        /\ result = Concat(NonEmptyTexts(LastAttempt))

(***************************************************************************)
(* Properties of the converter.                                            *)
(***************************************************************************)
\* index of the last character of s that is no whitespace (0 if none)
LastInk(s) ==
    LET ink == {i \in 1..Len(s) : ~IsSpace(s[i])}
    IN IF ink = {} THEN 0 ELSE CHOOSE i \in ink : \A j \in ink : j <= i

FirstInk(s) ==
    LET ink == {i \in 1..Len(s) : ~IsSpace(s[i])}
    IN IF ink = {} THEN 1 ELSE CHOOSE i \in ink : \A j \in ink : j >= i

\* the line without trailing whitespace, and without surrounding whitespace
RefRTrim(s) == SubSeq(s, 1, LastInk(s))
RefTrim(s) == SubSeq(s, FirstInk(s), LastInk(s))

\* the number of leading characters of s that are in set
Leading(s, set) ==
    Cardinality({n \in 1..Len(s) : \A i \in 1..n : s[i] \in set})

\* a fence line as the converter recognises it: it begins with three backticks
RefIsFence(raw) == Len(raw) >= 3 /\ \A i \in 1..3 : raw[i] = Tick

\* a fence line in the narrow sense: three or more backticks and nothing else
\* but trailing whitespace
OnlyBackticks(raw) ==
    /\ Leading(raw, {Tick}) >= 3
    /\ Leading(raw, {Tick}) = Len(RefRTrim(raw))

RefElement(kind, level, text) == [kind |-> kind, level |-> level, text |-> text]

\* The elements the rules (2)-(7) of the line classification give for one
\* line that is no fence line.
RefLine(raw, inCode) ==
    LET l == RefRTrim(raw)
        t == RefTrim(raw)
        h == Leading(l, {"#"})
        d == Leading(t, {"0", "1", "2", "3", "4", "5", "6", "7", "8", "9"})
    IN IF inCode THEN <<RefElement("code", 0, l)>>
       ELSE IF h \in 1..4 /\ Len(l) > h /\ l[h + 1] = " "
           THEN <<RefElement("heading", h, SubSeq(l, h + 2, Len(l)))>>
       ELSE IF Len(t) >= 2 /\ t[1] \in {"-", "*"} /\ t[2] = " "
           THEN <<RefElement("bullet", 0, SubSeq(t, 3, Len(t)))>>
       ELSE IF d >= 1 /\ Len(t) >= d + 2 /\ t[d + 1] = "." /\ t[d + 2] = " "
           THEN <<RefElement("numbered", 0, SubSeq(t, d + 3, Len(t)))>>
       ELSE IF t = <<>> THEN <<>>
       ELSE <<RefElement("paragraph", 0, l)>>

RECURSIVE RefDoc(_, _)
\* The element sequence of the reference classifier for a sequence of lines,
\* started in the given code-block state.
RefDoc(raws, inCode) ==
    IF raws = <<>> THEN <<>>
    ELSE IF RefIsFence(Head(raws)) THEN RefDoc(Tail(raws), ~inCode)
    ELSE RefLine(Head(raws), inCode) \o RefDoc(Tail(raws), inCode)

\* What an element of the document is, seen from outside.
View(e) ==
    LET text == Concat([i \in 1..Len(e.runs) |-> e.runs[i].text])
        mono == /\ e.runs # <<>>
                /\ \A i \in 1..Len(e.runs) :
                      e.runs[i].font = "Courier New" /\ e.runs[i].size = 10
        kind == IF e.kind = "heading" THEN "heading"
                ELSE IF e.style = "List Bullet" THEN "bullet"
                ELSE IF e.style = "List Number" THEN "numbered"
                ELSE IF e.style = "No Spacing" /\ mono THEN "code"
                ELSE IF e.style = "Normal" /\ e.runs # <<>> /\ ~mono THEN "paragraph"
                ELSE "other"
    IN RefElement(kind, e.level, text)

ViewDoc(d) == [i \in 1..Len(d) |-> View(d[i])]

\* the lines the inner loop has dealt with
Processed == SubSeq(lines, 1, idx - 1)

\* C5 (as claimed): for every sequence of input lines the converter emits the
\* element sequence of the reference classifier (fence, code line, heading,
\* bullet, numbered item, empty line, plain paragraph, first match wins).
C5_MatchesReference ==
    /\ cpc # "failed"
    /\ cpc = "lines" => ViewDoc(doc) = RefDoc(Processed, FALSE)
    /\ \A k \in 1..Len(saves) : ViewDoc(saves[k].doc) = RefDoc(saves[k].lines, FALSE)

\* C6 (as claimed): inside a code block every line that is no fence line, an
\* empty or whitespace-only one included, adds exactly one fixed-width
\* no-spacing paragraph holding the line, and the loop goes on to the next line.
C6_CodeLineEmitted ==
    [][(cpc = "lines" /\ idx <= Len(lines) /\ in_code_block
            /\ ~RefIsFence(lines[idx])) =>
         /\ cpc' = "lines"
         /\ idx' = idx + 1
         /\ in_code_block'
         /\ ViewDoc(doc') =
                Append(ViewDoc(doc), RefElement("code", 0, RefRTrim(lines[idx])))]_vars

\* the inner loop is about to deal with line idx
AtLine == cpc = "lines" /\ idx <= Len(lines)

\* C7 (as claimed): a line toggles the code-block state and emits nothing if
\* and only if, without its trailing whitespace, it consists of three or more
\* backticks; every other line leaves the state unchanged.
C7_ToggleIffOnlyBackticks ==
    [][AtLine =>
         /\ (in_code_block' # in_code_block /\ doc' = doc) <=> OnlyBackticks(lines[idx])
         /\ ~OnlyBackticks(lines[idx]) => in_code_block' = in_code_block]_vars

\* C7 (amended): a line toggles the code-block state and emits nothing if and
\* only if it begins with three backticks, whatever follows them; every other
\* line leaves the state unchanged.
C7_ToggleIffStartsWithBackticks ==
    [][AtLine =>
         /\ (in_code_block' # in_code_block /\ doc' = doc) <=> RefIsFence(lines[idx])
         /\ ~RefIsFence(lines[idx]) => in_code_block' = in_code_block]_vars

\* a line of backticks followed by text has toggled the state, and a line of
\* backticks after leading whitespace has not
C7_Witness ==
    /\ cpc = "lines"
    /\ idx = 3
    /\ lines[1] = <<Tick, Tick, Tick, "p", "y", "\n">>
    /\ lines[2] = <<" ", Tick, Tick, Tick, "\n">>
    /\ in_code_block
    /\ Len(doc) = 1

\* the number of fence lines in a sequence of lines
FenceCount(raws) == Cardinality({i \in 1..Len(raws) : RefIsFence(raws[i])})

\* the lines that are no fence lines and have an odd number of fence lines
\* before them
CodePositions(raws) ==
    {i \in 1..Len(raws) :
        ~RefIsFence(raws[i]) /\ FenceCount(SubSeq(raws, 1, i - 1)) % 2 = 1}

NoSpacingCount(d) == Cardinality({i \in 1..Len(d) : d[i].style = "No Spacing"})

\* C8: in every file the code-block state starts as Normal, whatever the state
\* at the end of the file before, and at every line it is InCodeBlock exactly
\* when an odd number of fence lines precede the line in the same file; the
\* lines after an unbalanced fence are all taken as code.
C8_StateIsFenceParity ==
    /\ cpc = "lines" =>
          /\ in_code_block = (FenceCount(Processed) % 2 = 1)
          /\ NoSpacingCount(doc) = Cardinality(CodePositions(Processed))
    /\ \A k \in 1..Len(saves) :
          NoSpacingCount(saves[k].doc) = Cardinality(CodePositions(saves[k].lines))

\* the file before ended inside a code block, and the current file has
\* emitted its first line as a plain paragraph
C8_Witness ==
    /\ cpc = "lines"
    /\ Len(saves) = 1
    /\ FenceCount(saves[1].lines) = 1
    /\ NoSpacingCount(saves[1].doc) = 1
    /\ idx = 2
    /\ ~in_code_block
    /\ Len(doc) = 1
    /\ doc[1].style = "Normal"

\* the lines that are not empty after trimming and are no fence lines
ContentLines(raws) ==
    {i \in 1..Len(raws) :
        /\ \E j \in 1..Len(raws[i]) : ~IsSpace(raws[i][j])
        /\ ~RefIsFence(raws[i])}

\* C9: the number of elements of every document written equals the number of
\* lines of its source that are not empty after trimming and are no fence
\* lines, and no element of it is empty; the same holds of the document under
\* construction with respect to the lines dealt with.
C9_ElementCount ==
    /\ \A k \in 1..Len(saves) :
          /\ Len(saves[k].doc) = Cardinality(ContentLines(saves[k].lines))
          /\ \A i \in 1..Len(saves[k].doc) :
                \E r \in 1..Len(saves[k].doc[i].runs) : saves[k].doc[i].runs[r].text # <<>>
    /\ cpc = "lines" => Len(doc) = Cardinality(ContentLines(Processed))

\* a document written from two paragraphs with an empty line between them
C9_Witness ==
    \E k \in 1..Len(saves) :
        /\ Len(saves[k].lines) = 3
        /\ saves[k].lines[1] = <<"x", "\n">>
        /\ saves[k].lines[2] = <<"\n">>
        /\ saves[k].lines[3] = <<"x", "\n">>
        /\ Len(saves[k].doc) = 2

\* the name with only its trailing ".md" replaced by ".docx"
ExtensionReplaced(name) == SubSeq(name, 1, Len(name) - 3) \o DocxExt

\* C10 (as claimed): exactly the entries ending in ".md" are converted, each
\* to one document, written under the name of the entry with only its trailing
\* ".md" replaced by ".docx".
C10_OutputName ==
    /\ \A k \in 1..Len(saves) :
          /\ saves[k].source \in listing
          /\ EndsWith(saves[k].source, MdExt)
          /\ saves[k].path = ExtensionReplaced(saves[k].source)
          /\ \A j \in 1..Len(saves) : saves[j].source = saves[k].source => j = k
    /\ cpc = "done" =>
          \A name \in listing :
              EndsWith(name, MdExt) => \E k \in 1..Len(saves) : saves[k].source = name

\* the source files run r has written a document for
Converted(r) == {saves[k].source : k \in {j \in 1..Len(saves) : saves[j].run = r}}

\* the run is over
RunOver == cpc \in {"done", "failed"}

\* C11 (as claimed): when the converter is run a second time on unchanged
\* sources, the second run converts the same set of source files as the first
\* and gives every source file the element sequence the first run gave it.
C11_SecondRunSame ==
    (run = 2 /\ RunOver) =>
        /\ Converted(2) = Converted(1)
        /\ \A j, k \in 1..Len(saves) :
              (saves[j].source = saves[k].source) =>
                  ViewDoc(saves[j].doc) = ViewDoc(saves[k].doc)

\* C19 (as claimed): two distinct source files are written to two distinct
\* output paths, and no output path is a source file of the run.
C19_DistinctOutputs ==
    /\ \A j, k \in 1..Len(saves) :
          (saves[j].source # saves[k].source) => saves[j].path # saves[k].path
    /\ \A k \in 1..Len(saves) :
          ~(saves[k].path \in listing /\ EndsWith(saves[k].path, MdExt))

(***************************************************************************)
(* Further properties of the ChatClient.                                   *)
(***************************************************************************)
\* a transport event that has a non-empty choices list, a first choice with
\* a delta, and non-empty content
HasContent(e) == e.choices = "list" /\ e.delta = "present" /\ e.text # <<>>

\* C12: chat_stream yields exactly the contents of the transport events that
\* have a non-empty choices list, a first choice with a delta and non-empty
\* content, in arrival order; no fragment yielded is empty; an event lacking
\* one of these is skipped and the stream stays open until the transport
\* closes it.
C12_YieldsContents ==
    /\ [](attempts # <<>> =>
            /\ yielded = NonEmptyTexts(SelectSeq(LastAttempt, HasContent))
            /\ \A i \in 1..Len(yielded) : yielded[i] # <<>>
            /\ ret = Concat(yielded))
    /\ [][(pc = "stream" /\ attempts' # attempts) =>
            /\ pc' = "stream"
            /\ LET e == attempts'[Len(attempts')][Len(attempts'[Len(attempts')])]
               IN yielded' = IF HasContent(e) THEN Append(yielded, e.text)
                             ELSE yielded]_vars

C12_Witness ==
    /\ pc = "stream"
    /\ Len(LastAttempt) = 3
    /\ LastAttempt[1].text = <<"a">>
    /\ LastAttempt[2].choices = "list" /\ LastAttempt[2].delta = "none"
    /\ LastAttempt[3].text = <<"b", "c">>
    /\ yielded = << <<"a">>, <<"b", "c">> >>

\* the requests issued again after an empty result
Retried == IF pc = "request" THEN Len(attempts) ELSE Len(attempts) - 1

\* C13 (as claimed): every wait of 1.3 is followed by a new streaming
\* request: the number of waits equals the number of retried requests, and
\* chat does not wait right before it returns the failure string.
C13_EveryWaitThenRequest ==
    /\ \A i \in 1..Len(sleeps) : sleeps[i] = 13
    /\ pc = "request" => Len(sleeps) = Len(attempts)
    /\ pc \in {"stream", "returned", "raised"} => Len(sleeps) = Len(attempts) - 1

\* C14 (as claimed): the retry entries of the log carry the counts 1, 2, 3,
\* ... in order, one entry per retried request and none that is not followed
\* by a retry; the exhaustion entry is logged once, last, and only when chat
\* returns the failure string.
C14_RetryLogPerRetry ==
    LET retries == SelectSeq(log, LAMBDA e : e # ExhaustedLog)
        failed == pc = "returned" /\ result = FailureMessage
    IN /\ retries = [k \in 1..Retried |-> RetryLog(k)]
       /\ Len(log) = Len(retries) + (IF failed THEN 1 ELSE 0)
       /\ failed => log[Len(log)] = ExhaustedLog

\* C16: when chat returns, every attempt before the last was empty; if the
\* last attempt (attempt k + 1, k <= 5) carried a non-empty fragment, the value
\* is the concatenation of that attempt's non-empty fragments and not the
\* failure string; the failure string is returned only after 6 empty attempts.
C16_ReturnsLastAttempt ==
    pc = "returned" =>
        LET n == Len(attempts)
        IN /\ \A i \in 1..(n - 1) : NonEmptyTexts(attempts[i]) = <<>>
           /\ n \in 1..6
           /\ IF NonEmptyTexts(attempts[n]) # <<>>
              THEN /\ result = Concat(NonEmptyTexts(attempts[n]))
                   /\ result # FailureMessage
              ELSE /\ result = FailureMessage
                   /\ n = 6

\* five empty attempts, one of them of empty-string fragments, then content
C16_Witness ==
    /\ pc = "returned"
    /\ Len(attempts) = 6
    /\ retry = 5
    /\ \E i \in 1..5 : attempts[i] # <<>>
    /\ result = <<"b", "c", "a">>

\* C17 (as claimed): every call of chat comes to return a non-empty response
\* or the failure string, after at most 6 requests, and retry never exceeds 6.
C17_ReturnsWithinSix ==
    /\ retry <= 6
    /\ Len(attempts) <= 6
    /\ \/ pc = "returned" /\ (result = FailureMessage \/ result # <<>>)
       \/ ENABLED ChatNext

\* the number of attempts of a call that were closed with an empty result
OwnEmpties(c) ==
    IF c.pc = "request"
       \/ (c.pc = "returned" /\ NonEmptyTexts(c.attempts[Len(c.attempts)]) = <<>>)
    THEN Len(c.attempts)
    ELSE Len(c.attempts) - 1

\* C15: under every interleaving of the concurrent calls of chat, the
\* requests a call has issued, its retry count, its accumulated text and the
\* value it returns are determined by the streams delivered to that call
\* alone: two calls that were delivered the same streams and are at the same
\* position agree on all of them, whatever the other call has done.
C15_CallsIndependent ==
    /\ \A i \in CallIds :
          LET c == calls[i]
              n == Len(c.attempts)
          IN /\ c.retry = OwnEmpties(c)
             /\ Len(c.sleeps) = c.retry
             /\ \A k \in 1..(n - 1) : NonEmptyTexts(c.attempts[k]) = <<>>
             /\ c.ret = IF n = 0 THEN <<>>
                        ELSE Concat(NonEmptyTexts(c.attempts[n]))
             /\ c.pc = "returned" =>
                   IF NonEmptyTexts(c.attempts[n]) # <<>>
                   THEN c.result = Concat(NonEmptyTexts(c.attempts[n]))
                   ELSE c.result = FailureMessage /\ n = 6
    /\ \A i, j \in CallIds :
          (calls[i].attempts = calls[j].attempts /\ calls[i].pc = calls[j].pc) =>
              /\ calls[i].retry = calls[j].retry
              /\ calls[i].ret = calls[j].ret
              /\ calls[i].result = calls[j].result

\* both calls in flight: one has retried five times, the other is receiving
\* content in its second attempt
C15_Witness ==
    /\ calls # <<>>
    /\ calls[1].pc = "stream" /\ calls[1].retry = 5 /\ calls[1].ret = <<>>
    /\ calls[2].pc = "stream" /\ calls[2].retry = 1 /\ calls[2].ret = <<"a">>

\* a line that begins with five or more '#'
FiveHashes(raw) == Leading(RefRTrim(raw), {"#"}) >= 5

\* a line that looks like a numbered item, digits and '.', but whose '.' is
\* not followed by a space once the trailing whitespace is gone
MalformedNumbered(raw) ==
    LET t == RefTrim(raw)
        d == Leading(t, {"0", "1", "2", "3", "4", "5", "6", "7", "8", "9"})
    IN /\ d >= 1
       /\ Len(t) >= d + 1
       /\ t[d + 1] = "."
       /\ Len(t) = d + 1 \/ t[d + 2] # " "

\* C18: outside a code block, a line with five or more leading '#' and a
\* malformed numbered line (no ". " after its digits once trailing whitespace
\* is stripped) each add exactly one plain paragraph holding the line as it is
\* after the stripping of trailing whitespace; no heading or list item is
\* added and the conversion goes on to the next line.
C18_FallThroughToParagraph ==
    [][(AtLine /\ ~in_code_block
            /\ (FiveHashes(lines[idx]) \/ MalformedNumbered(lines[idx]))) =>
         /\ cpc' = "lines"
         /\ idx' = idx + 1
         /\ ~in_code_block'
         /\ ViewDoc(doc') =
                Append(ViewDoc(doc),
                       RefElement("paragraph", 0, RefRTrim(lines[idx])))]_vars

\* a file whose first two lines are '##### T' and '1. ', both dealt with
C18_Witness ==
    /\ cpc = "lines"
    /\ idx = 3
    /\ ~in_code_block
    /\ FiveHashes(lines[1])
    /\ MalformedNumbered(lines[2])
    /\ ViewDoc(doc) =
          << RefElement("paragraph", 0, <<"#", "#", "#", "#", "#", " ", "T">>),
             RefElement("paragraph", 0, <<"1", ".">>) >>

====
